---- MODULE Spec2Model ----
(***************************************************************************)
(* A model of pycharge's Simulation class (src/pycharge/simulation.py):    *)
(* the field sum calculate_E, the Lorentz-oscillator integrator (_rk4,     *)
(* _LO_equation, _E_driving, _update_dipole), the sequential run, the MPI  *)
(* run (run_mpi) and the pickle save file (_save, _load, __eq__).          *)
(*                                                                         *)
(* Numbers.  The program computes with floats; the model computes in the   *)
(* prime field GF(P), a homomorphic image of rational arithmetic, so that  *)
(* dt/2, 1/6 and (v1-v0)/dt are exact.  The magnitude of a value is that   *)
(* of its representative in -(P-1)/2 .. (P-1)/2.                           *)
(*                                                                         *)
(* Time.  Times are counted in half timesteps (t2 = 2*t/dt), because _rk4  *)
(* evaluates the driving field at t, t+dt/2 and t+dt.                      *)
(*                                                                         *)
(* Space.  Vectors are reduced to their component along the polarisation   *)
(* axis, and the light travel time between any two sources to delay2 half  *)
(* timesteps (the root optimize.newton finds).                             *)
(*                                                                         *)
(* Charge and Dipole (pycharge/charges.py, pycharge/dipole.py) are not     *)
(* part of the source at hand; what the model needs of them (reset,        *)
(* update_timestep, the trajectory functions, equality) follows the        *)
(* specification's data model and the calls simulation.py makes.           *)
(***************************************************************************)
EXTENDS Integers, Sequences, FiniteSets, TLC

\* ------------------------------------------------------------------ bounds
MaxD == 2        \* dipoles in the source list
MaxT == 3        \* timesteps of a run
MaxW == 3        \* MPI processes
MaxRuns == 2     \* calls of run on one Simulation object
MaxDelay2 == 2   \* light travel time between sources, in half timesteps
MaxRecs == 2     \* serialized runs in one save file

\* ------------------------------------------------------------ arithmetic
P == 5
None == -1

Add(a, b) == (a + b) % P
Sub(a, b) == (a + P - (b % P)) % P
Mul(a, b) == (a * b) % P
Inv(a) == CHOOSE y \in 1..(P - 1) : (a * y) % P = 1
Div(a, b) == Mul(a, Inv(b % P))
Signed(a) == IF a > (P - 1) \div 2 THEN a - P ELSE a
\* np.linalg.norm of a vector with one component
Norm(a) == IF Signed(a) < 0 THEN 0 - Signed(a) ELSE Signed(a)

Min(a, b) == IF a < b THEN a ELSE b
Zeros(n) == [k \in 1..n |-> 0]
SetAt(s, k, v) == [s EXCEPT ![k] = v]

\* ------------------------------------------------------- Charge and Dipole
\* The identity key equality compares: the construction parameters.
ChargeKey(slot, q, r0, v0) == [slot |-> slot, q |-> q, r0 |-> r0, v0 |-> v0]

\* A charge with a fixed position (any Charge that is not a dipole member):
\* its trajectory functions are constant.
StationaryCharge(slot, q, r0) ==
    [key |-> ChargeKey(slot, q, r0, 0), q |-> q,
     position |-> <<r0>>, velocity |-> <<0>>, acceleration |-> <<0>>]

\* Charge.__eq__: by construction parameters (an unpickled copy is equal).
ChargeEq(c1, c2) == c1.key = c2.key

\* The member charge of a dipole: sign = 1 for charge_pair[0], P-1 for [1].
\* Its position is origin(t) +- disp/2 (kept relative to the origin, in units
\* of half the moment), its velocity origin'(t) +- vel/2, likewise.
DipoleChargeReset(slot, sign, r0, ov, timesteps) ==
    [key |-> ChargeKey(slot, sign, r0, ov), q |-> sign,
     position |-> SetAt(Zeros(timesteps), 1, Mul(sign, r0)),
     velocity |-> SetAt(Zeros(timesteps), 1, ov),
     acceleration |-> Zeros(timesteps)]

\* Dipole.reset(timesteps, dt, save_E), the dipole's own arrays.
DipoleReset(d, timesteps, save_E) ==
    [d EXCEPT !.t_index = 0,
              !.moment_disp = SetAt(Zeros(timesteps), 1, d.initial_r),
              !.moment_vel = Zeros(timesteps),
              !.moment_acc = Zeros(timesteps),
              !.E_total = IF save_E THEN Zeros(timesteps) ELSE <<>>,
              !.E_vel = IF save_E THEN Zeros(timesteps) ELSE <<>>,
              !.E_acc = IF save_E THEN Zeros(timesteps) ELSE <<>>]

\* Dipole(origin, initial_r): slot i of the source list, charges 2i-1 and 2i.
NewDipole(i, r0, ov) ==
    DipoleReset([slot |-> i, initial_r |-> r0, ov |-> ov,
                 charge_pair |-> <<2 * i - 1, 2 * i>>,
                 t_index |-> 0, moment_disp |-> <<>>, moment_vel |-> <<>>,
                 moment_acc |-> <<>>, E_total |-> <<>>, E_vel |-> <<>>,
                 E_acc |-> <<>>], 1, FALSE)

\* Simulation.__init__(sources, E_field): sources are nD dipoles followed by
\* nS stationary charges.
NewSimulation(nD, nS, r0, ov, ext) ==
    [E_field |-> ext,
     dipoles |-> [i \in 1..nD |-> NewDipole(i, r0[i], ov[i])],
     all_charges |-> [k \in 1..(2 * nD + nS) |-> k],
     chg |-> [k \in 1..(2 * nD + nS) |->
                IF k <= 2 * nD
                THEN DipoleChargeReset(k, IF k % 2 = 1 THEN 1 ELSE P - 1,
                                       r0[(k + 1) \div 2], ov[(k + 1) \div 2], 1)
                ELSE StationaryCharge(k, 1, 1)],
     timesteps |-> None, dt |-> None, save_E |-> "None"]

\* dipole.reset as _init_simulation calls it: the dipole and its two charges.
ResetDipoleOf(S, i, timesteps, save_E) ==
    LET d == S.dipoles[i]
        c0 == d.charge_pair[1]
        c1 == d.charge_pair[2]
    IN [S EXCEPT !.dipoles[i] = DipoleReset(d, timesteps, save_E),
                 !.chg[c0] = DipoleChargeReset(S.chg[c0].key.slot, 1,
                                               d.initial_r, d.ov, timesteps),
                 !.chg[c1] = DipoleChargeReset(S.chg[c1].key.slot, P - 1,
                                               d.initial_r, d.ov, timesteps)]

\* dipole.update_timestep(moment_disp, moment_vel, moment_acc, E_driving):
\* the dipole keeps its own index of the last written timestep.
UpdateTimestep(S, i, md, mv, ma, E) ==
    LET d == S.dipoles[i]
        n == d.t_index + 2       \* 1-based position of index t_index + 1
        c0 == d.charge_pair[1]
        c1 == d.charge_pair[2]
        d1 == [d EXCEPT !.t_index = d.t_index + 1,
                        !.moment_disp[n] = md,
                        !.moment_vel[n] = mv,
                        !.moment_acc[n] = ma]
        d2 == IF E = <<>> THEN d1
              ELSE [d1 EXCEPT !.E_total[n] = E[1], !.E_vel[n] = E[2],
                              !.E_acc[n] = E[3]]
    IN [S EXCEPT !.dipoles[i] = d2,
                 !.chg[c0].position[n] = md,
                 !.chg[c0].velocity[n] = Add(d.ov, mv),
                 !.chg[c0].acceleration[n] = ma,
                 !.chg[c1].position[n] = Sub(0, md),
                 !.chg[c1].velocity[n] = Sub(d.ov, mv),
                 !.chg[c1].acceleration[n] = Sub(0, ma)]

\* charge.xpos(tr) and the like: the array at the retarded time, linear
\* between two timesteps, the initial value before t = 0.
Interp(arr, tr2) ==
    LET n == Len(arr)
        lo == Min(tr2 \div 2 + 1, n)
        hi == Min(tr2 \div 2 + 2, n)
    IN IF tr2 <= 0 THEN arr[1]
       ELSE IF tr2 % 2 = 0 THEN arr[lo]
       ELSE Div(Add(arr[lo], arr[hi]), 2)

\* ------------------------------------------------------------ field sums
\* optimize.newton(charge.solve_time, ...): the retarded time.
RetardedTime(t2, delay2) == t2 - delay2

\* The external field callable E_field(t, x, y, z), "none" when not given.
ExternalE(ext, t2) == IF ext = "wave" THEN Add(1, t2 % P) ELSE 0

_calculate_individual_E(c, tr2, pcharge_field) ==
    LET pos == Interp(c.position, tr2)
        vel == Interp(c.velocity, tr2)
        acc == Interp(c.acceleration, tr2)
        vel_field == Mul(c.q, Add(1, Add(pos, vel)))
        acc_field == Mul(c.q, Mul(acc, Add(1, pos)))
    IN CASE pcharge_field = "Velocity" -> vel_field
         [] pcharge_field = "Acceleration" -> acc_field
         [] pcharge_field = "Total" -> Add(vel_field, acc_field)

InExcludeByCharge(S, c, excl) ==
    \E k \in 1..Len(excl) : excl[k] = c \/ S.chg[excl[k]].q = S.chg[c].q

\* `charge in exclude_charges`: Python's membership, identity or equality.
\* excl is a sequence of charge objects' ids in S.chg.
InExclude(S, c, excl) ==
    \E k \in 1..Len(excl) : excl[k] = c \/ ChargeEq(S.chg[excl[k]], S.chg[c])

RECURSIVE SumCharges(_, _, _, _, _, _)
SumCharges(S, k, t2, delay2, pcharge_field, excl) ==
    IF k > Len(S.all_charges) THEN 0
    ELSE LET c == S.all_charges[k]
             rest == SumCharges(S, k + 1, t2, delay2, pcharge_field, excl)
         IN IF InExclude(S, c, excl) THEN rest
            ELSE Add(_calculate_individual_E(S.chg[c],
                         RetardedTime(t2, delay2), pcharge_field), rest)

calculate_E(S, t2, delay2, pcharge_field, excl) ==
    LET E == SumCharges(S, 1, t2, delay2, pcharge_field, excl)
    IN IF S.E_field # "none" THEN Add(E, ExternalE(S.E_field, t2)) ELSE E

_E_driving(S, t2, delay2, i, return_all) ==
    LET pair == S.dipoles[i].charge_pair
        E_total == calculate_E(S, t2, delay2, "Total", pair)
    IN IF ~return_all THEN <<E_total>>
       ELSE <<E_total, calculate_E(S, t2, delay2, "Velocity", pair),
              calculate_E(S, t2, delay2, "Acceleration", pair)>>

\* ------------------------------------------------------------ integrator
QoverM == 1
Gamma0 == 1
Omega0Sq == 1

_LO_equation(S, t2, delay2, y, i) ==
    LET E_driving == _E_driving(S, t2, delay2, i, FALSE)[1]
    IN <<y[2], Sub(Sub(Mul(QoverM, E_driving), Mul(Gamma0, y[2])),
                   Mul(Omega0Sq, y[1]))>>

Scale(a, y) == <<Mul(a, y[1]), Mul(a, y[2])>>
Plus(y, z) == <<Add(y[1], z[1]), Add(y[2], z[2])>>
HalfOf(y) == <<Div(y[1], 2), Div(y[2], 2)>>

Rk4TimesSame(t_step) == <<2 * t_step, 2 * t_step, 2 * t_step, 2 * t_step>>

\* The half-timestep times at which the four stages evaluate the field.
Rk4Times(t_step) == <<2 * t_step, 2 * t_step + 1, 2 * t_step + 1, 2 * t_step + 2>>

\* y + 1/6*(k1 + 2*k2 + 2*k3 + k4)
Rk4Sum(y, k1, k2, k3, k4) ==
    LET sum == Plus(Plus(k1, Scale(2, k2)), Plus(Scale(2, k3), k4))
    IN Plus(y, <<Div(sum[1], 6), Div(sum[2], 6)>>)

\* Each stage's increment is computed once and handed on as a value.
Rk4Stage4(S, delay2, tt, i, y, k1, k2, k3) ==
    CHOOSE r \in {Rk4Sum(y, k1, k2, k3, k4) :
                    k4 \in {Scale(S.dt, _LO_equation(S, tt[4], delay2,
                                                     Plus(y, k3), i))}} : TRUE

Rk4Stage3(S, delay2, tt, i, y, k1, k2) ==
    CHOOSE r \in {Rk4Stage4(S, delay2, tt, i, y, k1, k2, k3) :
                    k3 \in {Scale(S.dt, _LO_equation(S, tt[3], delay2,
                                                     Plus(y, HalfOf(k2)), i))}} : TRUE

Rk4Stage2(S, delay2, tt, i, y, k1) ==
    CHOOSE r \in {Rk4Stage3(S, delay2, tt, i, y, k1, k2) :
                    k2 \in {Scale(S.dt, _LO_equation(S, tt[2], delay2,
                                                     Plus(y, HalfOf(k1)), i))}} : TRUE

_rk4(S, delay2, t_step, i) ==
    LET d == S.dipoles[i]
        y == <<d.moment_disp[t_step + 1], d.moment_vel[t_step + 1]>>
        tt == Rk4Times(t_step)
    IN CHOOSE r \in {Rk4Stage2(S, delay2, tt, i, y, k1) :
                       k1 \in {Scale(S.dt, _LO_equation(S, tt[1], delay2, y, i))}} : TRUE

\* The speed _update_dipole compares with max_vel.
GuardSpeed(S, i, tstep) ==
    Norm(S.chg[S.dipoles[i].charge_pair[1]].velocity[tstep + 2])

\* _update_dipole: the simulation after the update, and whether it raises.
_update_dipole(S, delay2, tstep, i, moment_disp, moment_vel, max_vel) ==
    LET d == S.dipoles[i]
        t2 == 2 * (tstep + 1)
        moment_acc == Div(Sub(moment_vel, d.moment_vel[tstep + 1]), S.dt)
        E_driving == IF S.save_E = "True"
                     THEN _E_driving(S, t2, delay2, i, TRUE) ELSE <<>>
    IN CHOOSE r \in {[sim |-> S1, raised |-> GuardSpeed(S1, i, tstep) > max_vel] :
                       S1 \in {UpdateTimestep(S, i, moment_disp, moment_vel,
                                              moment_acc, E) :
                                   E \in {E_driving}}} : TRUE

RECURSIVE ResetAll(_, _, _, _)
ResetAll(S, i, timesteps, save_E) ==
    IF i > Len(S.dipoles) THEN S
    ELSE CHOOSE r \in {ResetAll(S1, i + 1, timesteps, save_E) :
                          S1 \in {ResetDipoleOf(S, i, timesteps, save_E)}} : TRUE

RECURSIVE SeedE(_, _, _)
SeedE(S, delay2, i) ==
    IF i > Len(S.dipoles) THEN S
    ELSE CHOOSE r \in
             {SeedE(S1, delay2, i + 1) :
                 S1 \in {[S EXCEPT !.dipoles[i].E_total[1] = E[1],
                                   !.dipoles[i].E_vel[1] = E[2],
                                   !.dipoles[i].E_acc[1] = E[3]] :
                            E \in {_E_driving(S, 0, delay2, i, TRUE)}}} : TRUE

_init_simulation(S, delay2, timesteps, dt, save_E) ==
    LET S1 == [S EXCEPT !.timesteps = timesteps, !.dt = dt,
                        !.save_E = IF save_E THEN "True" ELSE "False"]
    IN CHOOSE r \in {IF save_E THEN SeedE(S2, delay2, 1) ELSE S2 :
                       S2 \in {ResetAll(S1, 1, timesteps, save_E)}} : TRUE

\* ------------------------------------------------------------- save file
\* A save file is absent or holds a sequence of pickled Simulation objects.
NoFile == [exists |-> FALSE, recs |-> <<>>]

\* Simulation.__eq__ between self and an unpickled Simulation.
SimEq(S, L) ==
    /\ S.dt = L.dt
    /\ Len(S.all_charges) = Len(L.all_charges)
    /\ \A k \in 1..Len(S.all_charges) :
           ChargeEq(S.chg[S.all_charges[k]], L.chg[L.all_charges[k]])
    /\ S.timesteps = L.timesteps

FirstMatchHeadOnly(S, recs, k) ==
    IF recs # <<>> /\ SimEq(S, recs[1]) THEN 1 ELSE 0

\* pickle.load until a record equals self: its position, 0 at EOFError.
RECURSIVE FirstMatch(_, _, _)
FirstMatch(S, recs, k) ==
    IF k > Len(recs) THEN 0
    ELSE IF SimEq(S, recs[k]) THEN k ELSE FirstMatch(S, recs, k + 1)

\* dipole.__dict__ = loaded_dipole.__dict__ for the zipped dipoles: dipole i
\* now holds the loaded dipole's attributes, its charge_pair being the loaded
\* simulation's charge objects (placed after self's own in S.chg).
RECURSIVE TakeDicts(_, _, _)
TakeDicts(S, L, i) ==
    IF i > Min(Len(S.dipoles), Len(L.dipoles)) THEN S
    ELSE LET nC == Len(S.all_charges)
             ld == L.dipoles[i]
             S1 == [S EXCEPT !.dipoles[i] =
                        [ld EXCEPT !.charge_pair = <<nC + 2 * i - 1, nC + 2 * i>>],
                      !.chg = [k \in 1..(nC + 2 * Len(S.dipoles)) |->
                                 IF k = nC + 2 * i - 1 THEN L.chg[ld.charge_pair[1]]
                                 ELSE IF k = nC + 2 * i THEN L.chg[ld.charge_pair[2]]
                                 ELSE IF k <= Len(S.chg) THEN S.chg[k]
                                 ELSE S.chg[S.dipoles[(k - nC + 1) \div 2]
                                                .charge_pair[2 - ((k - nC) % 2)]]]]
         IN TakeDicts(S1, L, i + 1)

\* _load(file): whether a record was restored, and the simulation afterwards.
_load(S, f) ==
    LET m == FirstMatch(S, f.recs, 1)
    IN IF ~f.exists \/ m = 0 THEN [ok |-> FALSE, sim |-> S]
       ELSE [ok |-> TRUE, sim |-> TakeDicts(S, f.recs[m], 1)]

_save_overwrite(S, f) == [exists |-> TRUE, recs |-> <<S>>]

\* _save(file): open(file, "ab"), pickle.dump(self).
_save(S, f) == [exists |-> TRUE, recs |-> Append(f.recs, S)]

\* A record pickled by a simulation of other charges.
ForeignSim(timesteps, dt) ==
    [E_field |-> "none", dipoles |-> <<>>, all_charges |-> <<1>>,
     chg |-> <<StationaryCharge(1, 2, 1)>>,
     timesteps |-> timesteps, dt |-> dt, save_E |-> "False"]

\* The per-timestep histories of the dipoles.
Histories(S) ==
    [i \in 1..Len(S.dipoles) |->
        <<S.dipoles[i].moment_disp, S.dipoles[i].moment_vel,
          S.dipoles[i].moment_acc>>]

\* ------------------------------------------------------------------ state
VARIABLES
    env,          \* what does not change: delay2, mpi_size, mpi_ok, the script's save_E and max_vel
    call,         \* the arguments of the call in progress (or of the last one)
    sim,          \* rank -> that process's Simulation object
    pc,           \* rank -> where the process is
    tstep,        \* rank -> the loop index of `for tstep in range(timesteps-1)`
    di,           \* rank -> the position in `for dipole in ...`
    bcast_rank,   \* rank -> the loop index of `for bcast_rank in range(mpi_size)`
    moment_data,  \* rank -> the list the process broadcasts
    chan,         \* root -> rank -> broadcasts sent and not yet received
    file,         \* the save file
    log,          \* rank -> what the call did so far (observation only)
    runs,         \* calls made so far
    q,            \* the last field query and its results
    files,        \* file name -> save file, for the module's file utilities
    util          \* what the file utilities were called with and returned

vars == <<env, call, sim, pc, tstep, di, bcast_rank, moment_data, chan, file,
          log, runs, q, files, util>>

DtSet == {1, 2}
Ranks == 0..(env.mpi_size - 1)
NoCall == [timesteps |-> None, dt |-> None, file |-> FALSE, save_E |-> FALSE,
           max_vel |-> None]
NoLog == [outcome |-> "none", nrk4 |-> 0, nupdate |-> 0, errTstep |-> None,
          err |-> "none", fileAtCall |-> NoFile, simBefore |-> <<>>,
          simAtCall |-> <<>>,
          stage_times |-> <<>>, rk4_step |-> None, applied |-> {}, saved |-> FALSE,
          saves |-> <<>>, nSavedAtCall |-> 0]
NoQuery == [t2 |-> None, excl |-> <<>>, Total |-> 0, Velocity |-> 0,
            Acceleration |-> 0]

\* The simulations a script can construct: nD dipoles (dipole i with initial
\* moment i, the first one on a moving origin when ov = 1), nS stationary
\* charges, an external field or none.
Configs(nDs, nSs, ovs, exts) ==
    {NewSimulation(nD, nS, [i \in 1..nD |-> i],
                   [i \in 1..nD |-> IF i = 1 THEN ov ELSE 0], ext) :
        nD \in nDs, nS \in nSs, ov \in ovs, ext \in exts}

Envs(delays, sizes, oks, saves, vels, maxruns) ==
    {[delay2 |-> d, mpi_size |-> W, mpi_ok |-> ok, save_E |-> sE,
      max_vel |-> mv, max_runs |-> maxruns] :
        d \in delays, W \in sizes, ok \in oks, sE \in saves, mv \in vels}

\* ------------------------------------------------------- file utilities
FileNames == {"a", "b", "new"}
NoUtil == [input_files |-> <<>>, err |-> "none", done |-> FALSE,
           length |-> [n \in FileNames |-> <<>>]]

\* get_file_length(file): pickle.load until EOFError, -1 when not found.
get_file_length(f) == IF ~f.exists THEN -1 ELSE Len(f.recs)

\* combine_files(input_files, new_file) from input file k on: one pickle.load
\* of each input file, one pickle.dump to new_file opened with "ab"; an absent
\* or empty input file raises and leaves what was written so far.
RECURSIVE combine_files(_, _, _, _)
combine_files(fs, input_files, new_file, k) ==
    IF k > Len(input_files) THEN [files |-> fs, err |-> "none"]
    ELSE LET f == fs[input_files[k]]
         IN IF ~f.exists THEN [files |-> fs, err |-> "FileNotFoundError"]
            ELSE IF f.recs = <<>> THEN [files |-> fs, err |-> "EOFError"]
            ELSE combine_files([fs EXCEPT ![new_file] =
                                   [exists |-> TRUE, recs |-> Append(@.recs, f.recs[1])]],
                               input_files, new_file, k + 1)

InitCommon ==
    /\ pc = [r \in Ranks |-> "idle"]
    /\ tstep = [r \in Ranks |-> 0]
    /\ di = [r \in Ranks |-> 1]
    /\ bcast_rank = [r \in Ranks |-> 0]
    /\ moment_data = [r \in Ranks |-> <<>>]
    /\ chan = [r \in Ranks |-> [s \in Ranks |-> <<>>]]
    /\ log = [r \in Ranks |-> NoLog]
    /\ runs = 0
    /\ q = NoQuery
    /\ files = [n \in FileNames |-> NoFile]
    /\ util = NoUtil

\* A script constructs one Simulation and calls run once.
Init ==
    /\ env \in Envs(1..MaxDelay2, {1}, {TRUE}, BOOLEAN, {1, 2}, 1)
    /\ \E S \in Configs(0..MaxD, {0, 1}, {0, 1}, {"none", "wave"}) :
           sim = [r \in Ranks |-> S]
    /\ InitCommon
    /\ call = NoCall
    /\ file = NoFile

\* ---------------------------------------------------------- run (rank 0)
\* run(timesteps, dt, file, save_E, max_vel): _init_simulation, then _load.
RunCall(timesteps, dt, useFile) ==
    /\ pc[0] = "idle"
    /\ runs < env.max_runs
    /\ \E S1 \in {_init_simulation(sim[0], env.delay2, timesteps, dt, env.save_E)} :
       \E ld \in {IF useFile THEN _load(S1, file) ELSE [ok |-> FALSE, sim |-> S1]} :
          /\ sim' = [sim EXCEPT ![0] = ld.sim]
          /\ pc' = [pc EXCEPT ![0] = IF ld.ok THEN "idle" ELSE "loop"]
          /\ log' = [log EXCEPT ![0] =
                        [NoLog EXCEPT !.outcome = IF ld.ok THEN "restored"
                                                  ELSE "running",
                                      !.fileAtCall = file,
                                      !.simBefore = <<sim[0]>>,
                                      !.simAtCall = <<S1>>,
                                      !.saves = log[0].saves,
                                      !.nSavedAtCall = Len(log[0].saves)]]
    /\ call' = [timesteps |-> timesteps, dt |-> dt, file |-> useFile,
                save_E |-> env.save_E, max_vel |-> env.max_vel]
    /\ tstep' = [tstep EXCEPT ![0] = 0]
    /\ di' = [di EXCEPT ![0] = 1]
    /\ runs' = runs + 1
    /\ q' = NoQuery
    /\ UNCHANGED <<env, bcast_rank, moment_data, chan, file, files, util>>

\* One pass of the inner loop: _rk4 and _update_dipole for self.dipoles[di].
RunStep ==
    /\ pc[0] = "loop"
    /\ tstep[0] < call.timesteps - 1
    /\ di[0] <= Len(sim[0].dipoles)
    /\ \E y \in {_rk4(sim[0], env.delay2, tstep[0], di[0])} :
       \E u \in {_update_dipole(sim[0], env.delay2, tstep[0], di[0], y[1], y[2],
                                call.max_vel)} :
       \E last \in {di[0] = Len(sim[0].dipoles)} :
          /\ sim' = [sim EXCEPT ![0] = u.sim]
          /\ log' = [log EXCEPT ![0].nrk4 = @ + 1,
                                ![0].nupdate = @ + 1,
                                ![0].stage_times = Rk4Times(tstep[0]),
                                ![0].rk4_step = tstep[0],
                                ![0].outcome = IF u.raised THEN "raised" ELSE @,
                                ![0].err = IF u.raised THEN "ValueError" ELSE @,
                                ![0].errTstep = IF u.raised THEN tstep[0] ELSE @]
          /\ pc' = [pc EXCEPT ![0] = IF u.raised THEN "idle" ELSE "loop"]
          /\ tstep' = [tstep EXCEPT ![0] = IF ~u.raised /\ last THEN @ + 1 ELSE @]
          /\ di' = [di EXCEPT ![0] = IF u.raised THEN @ ELSE IF last THEN 1 ELSE @ + 1]
    /\ UNCHANGED <<env, call, bcast_rank, moment_data, chan, file, runs, q, files, util>>

\* The loop is over (or there is no dipole to loop over): _save, return.
RunFinish ==
    /\ pc[0] = "loop"
    /\ tstep[0] >= call.timesteps - 1 \/ Len(sim[0].dipoles) = 0
    /\ file' = IF call.file THEN _save(sim[0], file) ELSE file
    /\ pc' = [pc EXCEPT ![0] = "idle"]
    /\ log' = [log EXCEPT ![0].outcome = "completed",
                          ![0].saved = call.file,
                          ![0].saves = IF call.file
                                       THEN Append(@, [dt |-> call.dt,
                                                       timesteps |-> call.timesteps,
                                                       hist |-> Histories(sim[0]),
                                                       pos |-> Len(file.recs) + 1])
                                       ELSE @]
    /\ UNCHANGED <<env, call, sim, tstep, di, bcast_rank, moment_data, chan,
                   runs, q, files, util>>

\* -------------------------------------------------------- field queries
\* The exclusion lists a caller passes: none, one charge, a dipole's pair.
ExcludeLists(S) ==
    {<<>>} \cup {<<S.all_charges[k]>> : k \in 1..Len(S.all_charges)}
           \cup {S.dipoles[i].charge_pair : i \in 1..Len(S.dipoles)}

\* calculate_E(t, x, y, z, pcharge_field, exclude_charges) in its three modes.
Query(t2, excl) ==
    /\ pc[0] = "idle"
    /\ q = NoQuery
    /\ log[0].outcome \in {"none", "completed", "restored"}
    /\ q' = [t2 |-> t2, excl |-> excl,
             Total |-> calculate_E(sim[0], t2, env.delay2, "Total", excl),
             Velocity |-> calculate_E(sim[0], t2, env.delay2, "Velocity", excl),
             Acceleration |-> calculate_E(sim[0], t2, env.delay2, "Acceleration", excl)]
    /\ UNCHANGED <<env, call, sim, pc, tstep, di, bcast_rank, moment_data,
                   chan, file, log, runs, files, util>>

\* ---------------------------------------------------------------- run_mpi
\* self.dipoles[mpi_rank::mpi_size]: the positions in self.dipoles of the
\* dipoles a process evaluates.
process_dipoles(S, mpi_rank, mpi_size) ==
    [k \in 1..((Len(S.dipoles) - mpi_rank + mpi_size - 1) \div mpi_size) |->
        mpi_rank + 1 + (k - 1) * mpi_size]

RecvDipolesFromZero(S, root, mpi_size) ==
    [k \in 1..((Len(S.dipoles) + mpi_size - 1) \div mpi_size) |->
        1 + (k - 1) * mpi_size]

\* self.dipoles[bcast_rank::mpi_size]: the dipoles a received list is for.
RecvDipoles(S, root, mpi_size) ==
    [k \in 1..((Len(S.dipoles) - root + mpi_size - 1) \div mpi_size) |->
        root + 1 + (k - 1) * mpi_size]

\* range(mpi_size): the roots of the broadcasts of one timestep, in order.
FirstBcastRank == 0

StepStartIdleLeaves(S, r, t) ==
    IF t >= S.timesteps - 1 THEN "finish"
    ELSE IF Len(process_dipoles(S, r, env.mpi_size)) = 0 THEN "finish"
    ELSE "compute"

\* Where a process is when a timestep begins.
StepStart(S, r, t) ==
    IF t >= S.timesteps - 1 THEN "finish"
    ELSE IF Len(process_dipoles(S, r, env.mpi_size)) = 0 THEN "bcast"
    ELSE "compute"

\* run_mpi up to the loop: the import, _init_simulation, _load, COMM_WORLD.
\* A failed import builds a NotImplementedError and goes on; the name MPI is
\* then unbound where the communicator is read.
MpiCall(r) ==
    /\ pc[r] = "idle"
    /\ runs < env.mpi_size
    /\ \E S1 \in {_init_simulation(sim[r], env.delay2, call.timesteps, call.dt,
                                   call.save_E)} :
       \E ld \in {IF call.file THEN _load(S1, file) ELSE [ok |-> FALSE, sim |-> S1]} :
          /\ sim' = [sim EXCEPT ![r] = ld.sim]
          /\ pc' = [pc EXCEPT ![r] = IF ld.ok THEN "done"
                                     ELSE IF ~env.mpi_ok THEN "raised"
                                     ELSE StepStart(S1, r, 0)]
          /\ log' = [log EXCEPT ![r] =
                        [NoLog EXCEPT !.outcome = IF ld.ok THEN "restored"
                                                  ELSE IF ~env.mpi_ok THEN "raised"
                                                  ELSE "running",
                                      !.err = IF ~ld.ok /\ ~env.mpi_ok
                                              THEN "UnboundLocalError" ELSE "none",
                                      !.fileAtCall = file,
                                      !.simBefore = <<sim[r]>>,
                                      !.simAtCall = <<S1>>]]
    /\ tstep' = [tstep EXCEPT ![r] = 0]
    /\ di' = [di EXCEPT ![r] = 1]
    /\ bcast_rank' = [bcast_rank EXCEPT ![r] = FirstBcastRank]
    /\ moment_data' = [moment_data EXCEPT ![r] = <<>>]
    /\ runs' = runs + 1
    /\ UNCHANGED <<env, call, chan, file, q, files, util>>

\* One pass of `for dipole in process_dipoles`.
MpiCompute(r) ==
    /\ pc[r] = "compute"
    /\ \E own \in {process_dipoles(sim[r], r, env.mpi_size)} :
       \E i \in {own[di[r]]} :
       \E y \in {_rk4(sim[r], env.delay2, tstep[r], i)} :
       \E u \in {_update_dipole(sim[r], env.delay2, tstep[r], i, y[1], y[2],
                                call.max_vel)} :
          /\ sim' = [sim EXCEPT ![r] = u.sim]
          /\ log' = [log EXCEPT ![r].nrk4 = @ + 1,
                                ![r].nupdate = @ + 1,
                                ![r].outcome = IF u.raised THEN "raised" ELSE @,
                                ![r].err = IF u.raised THEN "ValueError" ELSE @,
                                ![r].errTstep = IF u.raised THEN tstep[r] ELSE @]
          /\ pc' = [pc EXCEPT ![r] = IF u.raised THEN "raised"
                                     ELSE IF di[r] = Len(own) THEN "bcast"
                                     ELSE "compute"]
          /\ di' = [di EXCEPT ![r] = IF u.raised THEN @ ELSE @ + 1]
          /\ moment_data' = [moment_data EXCEPT ![r] =
                                IF u.raised THEN @ ELSE Append(@, y)]
    /\ UNCHANGED <<env, call, tstep, bcast_rank, chan, file, runs, q, files, util>>

\* The end of one pass of `for bcast_rank in range(mpi_size)`.
BcastNext(r, S) ==
    IF bcast_rank[r] + 1 < env.mpi_size
    THEN /\ bcast_rank' = [bcast_rank EXCEPT ![r] = @ + 1]
         /\ pc' = [pc EXCEPT ![r] = "bcast"]
         /\ UNCHANGED <<tstep, di, moment_data>>
    ELSE /\ bcast_rank' = [bcast_rank EXCEPT ![r] = FirstBcastRank]
         /\ tstep' = [tstep EXCEPT ![r] = @ + 1]
         /\ di' = [di EXCEPT ![r] = 1]
         /\ moment_data' = [moment_data EXCEPT ![r] = <<>>]
         /\ pc' = [pc EXCEPT ![r] = StepStart(S, r, tstep[r] + 1)]

\* mpi_comm.bcast(moment_data, root=mpi_rank) on the root: the list is on its
\* way to every other process (the root need not wait for them).
MpiBcastSend(r) ==
    /\ pc[r] = "bcast"
    /\ bcast_rank[r] = r
    /\ chan' = [chan EXCEPT ![r] =
                   [s \in Ranks |-> IF s = r THEN @[s]
                                    ELSE Append(@[s], [tstep |-> tstep[r],
                                                       data |-> moment_data[r]])]]
    /\ BcastNext(r, sim[r])
    /\ UNCHANGED <<env, call, sim, file, log, runs, q, files, util>>

ApplyDataNone(S, t, ds, data, k, max_vel) == [sim |-> S, raised |-> FALSE, n |-> 0]

\* `for dipole, data in zip(self.dipoles[bcast_rank::mpi_size], bcast_data)`:
\* the simulation after the updates, up to the first that raises.
RECURSIVE ApplyData(_, _, _, _, _, _)
ApplyData(S, t, ds, data, k, max_vel) ==
    IF k > Min(Len(ds), Len(data)) THEN [sim |-> S, raised |-> FALSE, n |-> k - 1]
    ELSE CHOOSE r \in
             {IF u.raised THEN [sim |-> u.sim, raised |-> TRUE, n |-> k]
              ELSE ApplyData(u.sim, t, ds, data, k + 1, max_vel) :
                 u \in {_update_dipole(S, env.delay2, t, ds[k], data[k][1],
                                       data[k][2], max_vel)}} : TRUE

\* mpi_comm.bcast(None, root=bcast_rank) on another process, and the updates.
MpiBcastRecv(r) ==
    /\ pc[r] = "bcast"
    /\ bcast_rank[r] # r
    /\ chan[bcast_rank[r]][r] # <<>>
    /\ \E b \in {bcast_rank[r]} :
       \E msg \in {Head(chan[b][r])} :
       \E a \in {ApplyData(sim[r], tstep[r], RecvDipoles(sim[r], b, env.mpi_size),
                           msg.data, 1, call.max_vel)} :
          /\ chan' = [chan EXCEPT ![b][r] = Tail(@)]
          /\ sim' = [sim EXCEPT ![r] = a.sim]
          /\ log' = [log EXCEPT ![r].nupdate = @ + a.n,
                                ![r].applied = @ \cup {<<b, msg.tstep>>},
                                ![r].outcome = IF a.raised THEN "raised" ELSE @,
                                ![r].err = IF a.raised THEN "ValueError" ELSE @,
                                ![r].errTstep = IF a.raised THEN tstep[r] ELSE @]
          /\ IF a.raised
             THEN /\ pc' = [pc EXCEPT ![r] = "raised"]
                  /\ UNCHANGED <<tstep, di, bcast_rank, moment_data>>
             ELSE BcastNext(r, sim[r])
    /\ UNCHANGED <<env, call, file, runs, q, files, util>>

\* After the loop: `if mpi_rank == 0 and file is not None: self._save(file)`.
MpiFinish(r) ==
    /\ pc[r] = "finish"
    /\ file' = IF r = 0 /\ call.file THEN _save(sim[r], file) ELSE file
    /\ pc' = [pc EXCEPT ![r] = "done"]
    /\ log' = [log EXCEPT ![r].outcome = "completed",
                          ![r].saved = (r = 0 /\ call.file)]
    /\ UNCHANGED <<env, call, sim, tstep, di, bcast_rank, moment_data, chan,
                   runs, q, files, util>>

\* run's loop (`for tstep ...: for dipole in self.dipoles: ...`) as one
\* computation: the simulation it ends with, and whether it raised.
RECURSIVE RunLoop(_, _, _, _, _)
RunLoop(S, delay2, max_vel, t, i) ==
    IF t >= S.timesteps - 1 THEN [sim |-> S, raised |-> FALSE]
    ELSE IF i > Len(S.dipoles) THEN RunLoop(S, delay2, max_vel, t + 1, 1)
    ELSE LET y == _rk4(S, delay2, t, i)
             u == _update_dipole(S, delay2, t, i, y[1], y[2], max_vel)
         IN IF u.raised THEN u
            ELSE RunLoop(u.sim, delay2, max_vel, t, i + 1)

\* What run(timesteps, dt, None, save_E, max_vel) leaves of simulation S.
SequentialRun(S, delay2, c) ==
    RunLoop(_init_simulation(S, delay2, c.timesteps, c.dt, c.save_E), delay2,
            c.max_vel, 0, 1)

\* mpiexec -n mpi_size python script.py: every process constructs the same
\* Simulation and makes the same call of run_mpi.
InitMpi ==
    /\ env \in Envs(1..MaxDelay2, 1..MaxW, BOOLEAN, BOOLEAN, {1, 2}, 1)
    /\ \E S \in Configs(0..MaxD, {0}, {0, 1}, {"wave"}) :
           sim = [r \in Ranks |-> S]
    /\ InitCommon
    /\ \E timesteps \in 1..MaxT, dt \in DtSet, useFile \in BOOLEAN :
           call = [timesteps |-> timesteps, dt |-> dt, file |-> useFile,
                   save_E |-> env.save_E, max_vel |-> env.max_vel]
    /\ file = NoFile

NextMpi ==
    \/ \E r \in Ranks : MpiCall(r)
    \/ \E r \in Ranks : MpiCompute(r)
    \/ \E r \in Ranks : MpiBcastSend(r)
    \/ \E r \in Ranks : MpiBcastRecv(r)
    \/ \E r \in Ranks : MpiFinish(r)

SpecMpi == InitMpi /\ [][NextMpi]_vars

\* Every process of the job keeps running, and MPI delivers what was sent:
\* while some process can take a step, a step is eventually taken.
MpiFairness == WF_vars(NextMpi)

SpecMpiFair == InitMpi /\ [][NextMpi]_vars /\ MpiFairness

Next ==
    \/ \E timesteps \in 1..MaxT, dt \in DtSet, useFile \in BOOLEAN :
           RunCall(timesteps, dt, useFile)
    \/ RunStep
    \/ RunFinish
    \/ \E t2 \in 0..(2 * (MaxT - 1)), excl \in ExcludeLists(sim[0]) : Query(t2, excl)

Spec == Init /\ [][Next]_vars
\* A script that calls run several times with a save file that may hold the
\* record of another simulation.
InitFile ==
    /\ env \in Envs({1}, {1}, {TRUE}, BOOLEAN, {2}, MaxRuns)
    /\ \E S \in Configs(0..2, {1}, {0}, {"wave"}) : sim = [r \in Ranks |-> S]
    /\ InitCommon
    /\ call = NoCall
    /\ file \in {NoFile, [exists |-> TRUE, recs |-> <<>>],
                 [exists |-> TRUE, recs |-> <<ForeignSim(MaxT, 1)>>]}

NextFile ==
    \/ \E timesteps \in 2..MaxT, dt \in DtSet, useFile \in BOOLEAN :
           RunCall(timesteps, dt, useFile)
    \/ RunStep
    \/ RunFinish

SpecFile == InitFile /\ [][NextFile]_vars

\* ------------------------------------------- combine_files, get_file_length
\* The records a .dat file can hold here: two serialized runs that differ.
SavedRuns == {ForeignSim(1, 1), ForeignSim(2, 1)}

\* A file that is absent, empty, or holds up to MaxRecs serialized runs.
SomeFiles ==
    {NoFile} \cup
    UNION {{[exists |-> TRUE, recs |-> rs] : rs \in [1..n -> SavedRuns]} :
              n \in 0..MaxRecs}

\* The tuples of input file names a caller passes.
InputLists ==
    {<<n>> : n \in {"a", "b"}} \cup {<<n, m>> : n \in {"a", "b"}, m \in {"a", "b"}}

\* A directory with the files "a" and "b"; "new" does not exist.
InitCombine ==
    /\ env \in Envs({1}, {1}, {TRUE}, {FALSE}, {1}, 1)
    /\ sim = [r \in Ranks |-> NewSimulation(0, 0, <<>>, <<>>, "none")]
    /\ pc = [r \in Ranks |-> "idle"]
    /\ tstep = [r \in Ranks |-> 0]
    /\ di = [r \in Ranks |-> 1]
    /\ bcast_rank = [r \in Ranks |-> 0]
    /\ moment_data = [r \in Ranks |-> <<>>]
    /\ chan = [r \in Ranks |-> [s \in Ranks |-> <<>>]]
    /\ log = [r \in Ranks |-> NoLog]
    /\ runs = 0
    /\ q = NoQuery
    /\ call = NoCall
    /\ file = NoFile
    /\ \E fa \in SomeFiles, fb \in SomeFiles :
           files = [n \in FileNames |-> IF n = "a" THEN fa
                                        ELSE IF n = "b" THEN fb ELSE NoFile]
    /\ util = NoUtil

\* combine_files(input_files, "new").
CombineFiles(input_files) ==
    /\ ~util.done
    /\ \E c \in {combine_files(files, input_files, "new", 1)} :
          /\ files' = c.files
          /\ util' = [util EXCEPT !.input_files = input_files, !.err = c.err,
                                  !.done = TRUE]
    /\ UNCHANGED <<env, call, sim, pc, tstep, di, bcast_rank, moment_data, chan,
                   file, log, runs, q>>

\* get_file_length(n), called after the files were combined.
GetFileLength(n) ==
    /\ util.done
    /\ util.length[n] = <<>>
    /\ util' = [util EXCEPT !.length[n] = <<get_file_length(files[n])>>]
    /\ UNCHANGED <<env, call, sim, pc, tstep, di, bcast_rank, moment_data, chan,
                   file, log, runs, q, files>>

NextCombine ==
    \/ \E input_files \in InputLists : CombineFiles(input_files)
    \/ \E n \in FileNames : GetFileLength(n)

SpecCombine == InitCombine /\ [][NextCombine]_vars

\* ------------------------------------------------------------------ claims
Owner(j) == (j - 1) % env.mpi_size
InRun(r) == pc[r] \in {"compute", "bcast", "finish"} \/ log[r].outcome = "completed"
DipoleEntry(S, j, k) ==
    <<S.dipoles[j].moment_disp[k + 1], S.dipoles[j].moment_vel[k + 1],
      S.dipoles[j].moment_acc[k + 1]>>

\* How many timesteps process r has advanced dipole j by, from where it is in
\* the loops: tstep full steps, and this step's update when it is behind.
AdvancedBy(r, j) ==
    LET own == process_dipoles(sim[r], r, env.mpi_size)
    IN CASE pc[r] = "compute" ->
              tstep[r] + (IF \E k \in 1..(di[r] - 1) : own[k] = j THEN 1 ELSE 0)
         [] pc[r] = "bcast" ->
              tstep[r] + (IF Owner(j) = r \/ Owner(j) < bcast_rank[r] THEN 1 ELSE 0)
         [] OTHER -> tstep[r]

\* C1: wherever a process is in run_mpi, it has advanced every dipole exactly
\* once per timestep whose computation or broadcast it has passed (so once for
\* every dipole when the exchange of a timestep is over), and every entry it
\* holds equals the entry of the dipole's owner.
C1_ExchangeConsistent ==
    \A r \in Ranks : InRun(r) =>
        \A j \in 1..Len(sim[r].dipoles) :
            /\ sim[r].dipoles[j].t_index = AdvancedBy(r, j)
            /\ \A k \in 0..sim[r].dipoles[j].t_index :
                   /\ sim[Owner(j)].dipoles[j].t_index >= k
                   /\ DipoleEntry(sim[r], j, k) = DipoleEntry(sim[Owner(j)], j, k)

C1_Witness ==
    /\ env.mpi_size >= 2
    /\ \E r \in Ranks :
          /\ pc[r] = "compute" /\ tstep[r] = 1 /\ di[r] = 1
          /\ \E j \in 1..Len(sim[r].dipoles) :
                 Owner(j) # r /\ DipoleEntry(sim[r], j, 1) # <<0, 0, 0>>

\* C2: a process that computes timestep n+1 has received and applied the
\* timestep-n broadcast of every other process, and holds every dipole
\* advanced through index n+1.
C2_BarrierBeforeNextStep ==
    \A r \in Ranks : pc[r] = "compute" /\ tstep[r] > 0 =>
        /\ \A b \in Ranks \ {r} : <<b, tstep[r] - 1>> \in log[r].applied
        /\ \A j \in 1..Len(sim[r].dipoles) : sim[r].dipoles[j].t_index >= tstep[r]

C2_Witness ==
    \E r \in Ranks :
        /\ pc[r] = "compute" /\ tstep[r] = 1 /\ env.mpi_size = MaxW
        /\ Len(sim[r].dipoles) >= 2

AllCompleted == \A r \in Ranks : log[r].outcome = "completed"

\* C3: when run_mpi has finished on every process, each holds the histories
\* the sequential run computes from the same sources and arguments.
C3_MpiEqualsRun ==
    AllCompleted =>
        \E seq \in {SequentialRun(sim[0], env.delay2, call)} :
            ~seq.raised =>
                \A r \in Ranks : Histories(sim[r]) = Histories(seq.sim)

\* C5: once a process has raised the velocity error, no other process waits in
\* a broadcast for data of that process which will never be sent.
C5_NoProcessBlockedOnAborted ==
    \A r \in Ranks, b \in Ranks :
        ~(/\ b # r
          /\ log[b].err = "ValueError"
          /\ pc[r] = "bcast" /\ bcast_rank[r] = b
          /\ chan[b][r] = <<>>)

\* C8: without mpi4py, run_mpi ends with NotImplementedError and has touched
\* nothing: the Simulation is as it was before the call.
C8_MissingMpiReportedFirst ==
    \A r \in Ranks : ~env.mpi_ok /\ log[r].simBefore # <<>> =>
        /\ log[r].err = "NotImplementedError"
        /\ sim[r] = log[r].simBefore[1]

\* The speed of member charge m (1 or 2) of dipole i at timestep index k.
Speed(S, i, k, m) == Norm(S.chg[S.dipoles[i].charge_pair[m]].velocity[k + 1])

\* C4: in run, once an update has produced a member-charge speed above
\* max_vel, the run has ended with the velocity error, the timestep reported
\* is the index of the violating state, and nothing was advanced after it.
C4_VelocityErrorStopsRun ==
    log[0].outcome \in {"running", "raised", "completed"} =>
        \A i \in 1..Len(sim[0].dipoles) : \A k \in 1..sim[0].dipoles[i].t_index :
            (\E m \in {1, 2} : Speed(sim[0], i, k, m) > call.max_vel) =>
                /\ log[0].outcome = "raised"
                /\ log[0].errTstep = k
                /\ \A j \in 1..Len(sim[0].dipoles) :
                       /\ sim[0].dipoles[j].t_index <= k
                       /\ j > i => sim[0].dipoles[j].t_index = k - 1

\* C6: a call of run with the file of an earlier completed and saved run with
\* equal (dt, all_charges, timesteps) returns restored: the dipoles hold the
\* saved run's histories, nothing was integrated and the file is as it was.
C6_RoundTripRestore ==
    \A k \in 1..log[0].nSavedAtCall :
        (/\ call.file
         /\ log[0].saves[k].dt = call.dt
         /\ log[0].saves[k].timesteps = call.timesteps) =>
            /\ log[0].outcome = "restored"
            /\ pc[0] = "idle"
            /\ Histories(sim[0]) = log[0].saves[k].hist
            /\ log[0].nrk4 = 0 /\ log[0].nupdate = 0
            /\ file = log[0].fileAtCall

C6_Witness ==
    /\ log[0].outcome = "restored"
    /\ \E k \in 1..log[0].nSavedAtCall :
          /\ log[0].saves[k].pos > 1
          /\ log[0].saves[k].dt = call.dt
          /\ log[0].saves[k].timesteps = call.timesteps
    /\ Len(sim[0].dipoles) = 2
    /\ sim[0].dipoles[2].t_index = MaxT - 1
    /\ sim[0].dipoles[2].moment_vel[MaxT] # 0

\* In the call in progress, run was given a file that was absent, empty or
\* held no record equal to the simulation.
NoPriorState ==
    /\ call.file
    /\ log[0].simAtCall # <<>>
    /\ \A k \in 1..Len(log[0].fileAtCall.recs) :
           ~SimEq(log[0].simAtCall[1], log[0].fileAtCall.recs[k])

\* C7: with no prior state in the file the call does not restore and does not
\* fail on the file: it starts from the freshly reset dipoles, leaves the file
\* alone while it integrates, makes timesteps-1 steps for every dipole and
\* then appends exactly one record, its own, after the earlier ones.
C7_NoPriorStateRunsFromScratch ==
    NoPriorState =>
        /\ log[0].outcome \in {"running", "completed"}
        /\ pc[0] = "loop" /\ log[0].nrk4 = 0 => sim[0] = log[0].simAtCall[1]
        /\ pc[0] = "loop" => file = log[0].fileAtCall
        /\ log[0].outcome = "completed" =>
              /\ log[0].nrk4 = (call.timesteps - 1) * Len(sim[0].dipoles)
              /\ \A i \in 1..Len(sim[0].dipoles) :
                     sim[0].dipoles[i].t_index = call.timesteps - 1
              /\ file.exists
              /\ file.recs = Append(log[0].fileAtCall.recs, sim[0])

C7_Witness ==
    /\ NoPriorState
    /\ log[0].outcome = "completed"
    /\ Len(log[0].fileAtCall.recs) >= 1
    /\ log[0].nrk4 >= 2

\* C9: the Total output of calculate_E is the sum of its Velocity and
\* Acceleration outputs, and so is the saved driving field at every timestep.
C9_TotalIsVelocityPlusAcceleration ==
    /\ q.t2 # None => q.Total = Add(q.Velocity, q.Acceleration)
    /\ \A i \in 1..Len(sim[0].dipoles) :
           sim[0].save_E = "True" =>
               \A k \in 1..(sim[0].dipoles[i].t_index + 1) :
                   sim[0].dipoles[i].E_total[k] =
                       Add(sim[0].dipoles[i].E_vel[k], sim[0].dipoles[i].E_acc[k])

\* The sum of the individual Total fields of the all_charges entries at the
\* positions ks.
RECURSIVE SumPositions(_, _, _)
SumPositions(S, ks, tr2) ==
    IF ks = {} THEN 0
    ELSE LET k == CHOOSE x \in ks : TRUE
         IN Add(_calculate_individual_E(S.chg[S.all_charges[k]], tr2, "Total"),
                SumPositions(S, ks \ {k}, tr2))

IsIn(S, c, excl) ==
    \E m \in 1..Len(excl) : excl[m] = c \/ S.chg[excl[m]].key = S.chg[c].key

\* C10: calculate_E with an exclusion list returns the sum over the entries of
\* all_charges not in the list plus the external field; with a dipole's pair
\* excluded, the full sum less that pair's two fields; with no source, the
\* external field.
C10_ExclusionExact ==
    q.t2 # None =>
        LET S == sim[0]
            tr2 == q.t2 - env.delay2
            ext == IF S.E_field = "none" THEN 0 ELSE ExternalE(S.E_field, q.t2)
            kept == {k \in 1..Len(S.all_charges) : ~IsIn(S, S.all_charges[k], q.excl)}
        IN /\ q.Total = Add(SumPositions(S, kept, tr2), ext)
           /\ \A i \in 1..Len(S.dipoles) :
                  q.excl = S.dipoles[i].charge_pair =>
                      /\ kept = {k \in 1..Len(S.all_charges) :
                                    S.all_charges[k] \notin {q.excl[1], q.excl[2]}}
                      /\ Cardinality(kept) = Len(S.all_charges) - 2
           /\ Len(S.all_charges) = 0 => q.Total = ext

C10_Witness ==
    /\ q.t2 = 2
    /\ log[0].outcome = "completed"
    /\ Len(sim[0].dipoles) = 2
    /\ q.excl = sim[0].dipoles[1].charge_pair
    /\ sim[0].E_field = "wave"
    /\ q.Total # ExternalE(sim[0].E_field, q.t2)

\* C11: both member charges of every dipole of self.dipoles are entries of
\* self.all_charges, the objects the field sums iterate over.
C11_MemberChargesInAllCharges ==
    \A i \in 1..Len(sim[0].dipoles) : \A m \in {1, 2} :
        \E k \in 1..Len(sim[0].all_charges) :
            sim[0].all_charges[k] = sim[0].dipoles[i].charge_pair[m]

\* C12: while run has raised nothing, every state the dipoles have been
\* advanced to has both member charges at a speed of at most max_vel.
C12_GuardCoversBothCharges ==
    log[0].outcome \in {"running", "completed"} =>
        \A i \in 1..Len(sim[0].dipoles) : \A k \in 1..sim[0].dipoles[i].t_index :
            \A m \in {1, 2} : Speed(sim[0], i, k, m) <= call.max_vel

RECURSIVE ConcatRecs(_, _, _)
ConcatRecs(fs, names, k) ==
    IF k > Len(names) THEN <<>>
    ELSE fs[names[k]].recs \o ConcatRecs(fs, names, k + 1)

RECURSIVE SumLengths(_, _, _)
SumLengths(len, names, k) ==
    IF k > Len(names) THEN 0 ELSE len[names[k]][1] + SumLengths(len, names, k + 1)

\* C13: after combine_files on input files that each hold one or more
\* serialized runs, new_file (absent beforehand) holds the input files'
\* records in order and its get_file_length is the sum of theirs; the length
\* of an absent file is -1.
C13_CombineConcatenates ==
    /\ \A n \in FileNames :
           util.length[n] # <<>> /\ ~files[n].exists => util.length[n] = <<-1>>
    /\ (/\ util.done
        /\ \A k \in 1..Len(util.input_files) :
               /\ files[util.input_files[k]].exists
               /\ Len(files[util.input_files[k]].recs) >= 1
               /\ util.length[util.input_files[k]] # <<>>
        /\ util.length["new"] # <<>>) =>
           /\ util.err = "none"
           /\ files["new"].recs = ConcatRecs(files, util.input_files, 1)
           /\ util.length["new"][1] = SumLengths(util.length, util.input_files, 1)

NoError == \A r \in Ranks : log[r].err = "none"
AllDone == \A r \in Ranks : pc[r] = "done"

\* While no error has occurred: a broadcast a worker is about to receive is
\* the root's broadcast of the worker's own timestep; and when all workers
\* are done, no broadcast is left unreceived, every worker that ran the loop
\* has applied each other root's broadcast of each timestep and made
\* timesteps-1 updates of every dipole, and the file holds one record,
\* written by rank 0.
C15_Matched ==
    NoError =>
        /\ \A r \in Ranks : \A b \in Ranks \ {r} :
               pc[r] = "bcast" /\ bcast_rank[r] = b /\ chan[b][r] # <<>> =>
                   Head(chan[b][r]).tstep = tstep[r]
        /\ \A r \in Ranks : log[r].saved => r = 0
        /\ AllDone =>
              /\ \A r \in Ranks : \A b \in Ranks : chan[b][r] = <<>>
              /\ \A r \in Ranks :
                     /\ log[r].outcome \in {"completed", "restored"}
                     /\ log[r].outcome = "restored" => call.timesteps = 1
                     /\ log[r].outcome = "completed" =>
                           /\ log[r].applied =
                                  (Ranks \ {r}) \X (0..(call.timesteps - 2))
                           /\ log[r].nupdate =
                                  (call.timesteps - 1) * Len(sim[r].dipoles)
                     /\ \A j \in 1..Len(sim[r].dipoles) :
                            sim[r].dipoles[j].t_index = call.timesteps - 1
              /\ log[0].saved = call.file
              /\ Len(file.recs) = (IF call.file THEN 1 ELSE 0)

\* C15: run_mpi without an error matches every broadcast in the root order
\* on every worker and every worker eventually finishes; rank 0 alone saves,
\* once.
C15_DeadlockFree == []C15_Matched /\ <>(AllDone \/ ~NoError)

C15_Witness ==
    /\ AllDone /\ NoError
    /\ env.mpi_size = 3
    /\ Len(sim[0].dipoles) = 2
    /\ call.timesteps = MaxT
    /\ call.file
    /\ \A r \in Ranks : log[r].outcome = "completed"

====
